---- MODULE Spec2Model ----
(***************************************************************************)
(* Azure Container Apps capacity planner (per-app-SKU variant, the page    *)
(* component in src/unnamed/part_001).                                     *)
(*                                                                         *)
(* The state is the React state of Home(): the app list, the subnet text,  *)
(* the plan choice, the stored result, the validation errors, and the      *)
(* available-IP figure the component derives from the subnet text on each  *)
(* render.  Strings the code parses (the subnet) are sequences of          *)
(* one-character strings, so that parseInt, the regular expressions and    *)
(* the netmask conversion are computed the way the code computes them.     *)
(* App names are display text only and are not modelled: an app is         *)
(* identified by its position in the list (the code's idx).                *)
(***************************************************************************)
EXTENDS Integers, Sequences, FiniteSets, TLC

VARIABLES apps, subnetSize, planChoice, result, inputErrors, availableIPs

vars == <<apps, subnetSize, planChoice, result, inputErrors, availableIPs>>

(***************************************************************************)
(* JavaScript values that are not plain integers.                          *)
(***************************************************************************)
\* number | null | NaN, as tagged records (TLC cannot compare 3 with "null").
Null == [k |-> "null"]

NaN == [k |-> "NaN"]

Num(n) == [k |-> "num", v |-> n]

\* JS truthiness of a number | null: null, NaN and 0 are falsy.
Truthy(x) == x.k = "num" /\ x.v # 0

\* IEEE +Infinity (Math.floor(n / 0) for n > 0, and the literal Infinity).
\* It is larger than every finite value of the model; Math.ceil(r / Infinity)
\* is special-cased in CeilDivJS.
Infinity == 1000000000

\* A string-valued field that is undefined.
Undefined == "<undefined>"

(***************************************************************************)
(* Strings as character sequences.                                         *)
(***************************************************************************)
DigitChars == <<"0", "1", "2", "3", "4", "5", "6", "7", "8", "9">>

IsDigit(c) == \E d \in 1..10 : DigitChars[d] = c

DigitVal(c) == (CHOOSE d \in 1..10 : DigitChars[d] = c) - 1

\* /^\d+$/.test(s)
AllDigits(s) == Len(s) >= 1 /\ \A i \in 1..Len(s) : IsDigit(s[i])

\* s.startsWith("/")
StartsWithSlash(s) == Len(s) >= 1 /\ s[1] = "/"

\* s.slice(1)
Slice1(s) == IF Len(s) = 0 THEN <<>> ELSE Tail(s)

RECURSIVE TrimStart(_)
\* parseInt skips leading white space.
TrimStart(s) ==
  IF Len(s) > 0 /\ s[1] = " " THEN TrimStart(Tail(s)) ELSE s

RECURSIVE LeadingDigits(_)
\* The longest prefix of s made of decimal digits.
LeadingDigits(s) ==
  IF Len(s) > 0 /\ IsDigit(s[1])
    THEN <<s[1]>> \o LeadingDigits(Tail(s))
    ELSE <<>>

RECURSIVE DecimalValue(_)
\* The value of a digit string (Number("255"), and parseInt's digits).
DecimalValue(s) ==
  IF Len(s) = 0 THEN 0
  ELSE 10 * DecimalValue(SubSeq(s, 1, Len(s) - 1)) + DigitVal(s[Len(s)])

\* parseInt(s, 10): white space, an optional sign, then the longest run of
\* digits; whatever follows the digits is ignored; no digit at all is NaN.
parseInt(s) ==
  LET t      == TrimStart(s)
      signed == Len(t) > 0 /\ t[1] \in {"+", "-"}
      neg    == Len(t) > 0 /\ t[1] = "-"
      body   == IF signed THEN Tail(t) ELSE t
      ds     == LeadingDigits(body)
  IN  IF Len(ds) = 0 THEN NaN
      ELSE Num(IF neg THEN 0 - DecimalValue(ds) ELSE DecimalValue(ds))

RECURSIVE SplitOn(_, _)
\* s.split(c): the pieces of s between the occurrences of c.
SplitOn(s, c) ==
  IF \A i \in 1..Len(s) : s[i] # c THEN <<s>>
  ELSE LET p == CHOOSE i \in 1..Len(s) :
                  s[i] = c /\ \A j \in 1..(i - 1) : s[j] # c
       IN  <<SubSeq(s, 1, p - 1)>> \o SplitOn(SubSeq(s, p + 1, Len(s)), c)

\* /^\d+\.\d+\.\d+\.\d+$/.test(s)
IsDotted(s) ==
  LET parts == SplitOn(s, ".")
  IN  Len(parts) = 4 /\ \A i \in 1..4 : AllDigits(parts[i])

RECURSIVE ToBinary(_)
\* n.toString(2) for an integer n >= 0.
ToBinary(n) ==
  IF n < 2 THEN <<DigitChars[n + 1]>>
  ELSE ToBinary(n \div 2) \o <<DigitChars[(n % 2) + 1]>>

RECURSIVE PadStart8(_)
\* s.padStart(8, "0"): pads, never truncates.
PadStart8(s) == IF Len(s) >= 8 THEN s ELSE PadStart8(<<"0">> \o s)

RECURSIVE JoinAll(_)
\* parts.join("")
JoinAll(parts) ==
  IF Len(parts) = 0 THEN <<>> ELSE Head(parts) \o JoinAll(Tail(parts))

\* bin.split("1").length - 1: the number of "1" characters in bin.
CountOnes(bin) == Len(SplitOn(bin, "1")) - 1

\* The dotted-decimal branch of getAvailableIPs: the count of one-bits.
MaskBits(s) ==
  LET parts == SplitOn(s, ".")
      bin   == JoinAll([i \in 1..Len(parts) |->
                          PadStart8(ToBinary(DecimalValue(parts[i])))])
  IN  CountOnes(bin)

\* Math.pow(2, 32 - bits) - 14 for 1 <= bits <= 32.  TLC's integers are 32
\* bits wide and 2^31 is out of range, so the value is computed as
\* 2 * (2^(31 - bits) - 7), which is the same number.
TotalMinus14(bits) ==
  IF bits = 32 THEN 1 - 14 ELSE 2 * (2 ^ (31 - bits) - 7)

\* The guard "bits && bits >= 0 && bits <= 32".
BitsAccepted(bits) == Truthy(bits) /\ bits.v >= 0 /\ bits.v <= 32

getAvailableIPs(subnet) ==
  LET bits == IF StartsWithSlash(subnet) THEN parseInt(Slice1(subnet))
              ELSE IF AllDigits(subnet) THEN parseInt(subnet)
              ELSE IF IsDotted(subnet) THEN Num(MaskBits(subnet))
              ELSE Null
  IN  IF BitsAccepted(bits) THEN Num(TotalMinus14(bits.v)) ELSE Null

(***************************************************************************)
(* The node catalog and the per-app Dedicated accounting.                  *)
(***************************************************************************)
\* A faulty catalog: the GPU SKUs are listed ahead of the D and E families.
GpuFirstNodeTypes ==
  << [name |-> "NC24-A100", cpu |-> 24, ram |-> 220, gpu |-> 1],
     [name |-> "NC48-A100", cpu |-> 48, ram |-> 440, gpu |-> 2],
     [name |-> "NC96-A100", cpu |-> 96, ram |-> 880, gpu |-> 4],
     [name |-> "D4",        cpu |-> 4,  ram |-> 16,  gpu |-> 0],
     [name |-> "D8",        cpu |-> 8,  ram |-> 32,  gpu |-> 0],
     [name |-> "D16",       cpu |-> 16, ram |-> 64,  gpu |-> 0],
     [name |-> "D32",       cpu |-> 32, ram |-> 128, gpu |-> 0],
     [name |-> "E4",        cpu |-> 4,  ram |-> 32,  gpu |-> 0],
     [name |-> "E8",        cpu |-> 8,  ram |-> 64,  gpu |-> 0],
     [name |-> "E16",       cpu |-> 16, ram |-> 128, gpu |-> 0],
     [name |-> "E32",       cpu |-> 32, ram |-> 256, gpu |-> 0] >>

DEDICATED_NODE_TYPES ==
  << [name |-> "D4",        cpu |-> 4,  ram |-> 16,  gpu |-> 0],
     [name |-> "D8",        cpu |-> 8,  ram |-> 32,  gpu |-> 0],
     [name |-> "D16",       cpu |-> 16, ram |-> 64,  gpu |-> 0],
     [name |-> "D32",       cpu |-> 32, ram |-> 128, gpu |-> 0],
     [name |-> "E4",        cpu |-> 4,  ram |-> 32,  gpu |-> 0],
     [name |-> "E8",        cpu |-> 8,  ram |-> 64,  gpu |-> 0],
     [name |-> "E16",       cpu |-> 16, ram |-> 128, gpu |-> 0],
     [name |-> "E32",       cpu |-> 32, ram |-> 256, gpu |-> 0],
     [name |-> "NC24-A100", cpu |-> 24, ram |-> 220, gpu |-> 1],
     [name |-> "NC48-A100", cpu |-> 48, ram |-> 440, gpu |-> 2],
     [name |-> "NC96-A100", cpu |-> 96, ram |-> 880, gpu |-> 4] >>

\* The predicate handed to find: n fits a single replica of app.
NodeFits(n, app) == n.cpu >= app.cpu /\ n.ram >= app.ram /\ n.gpu >= app.gpu

\* A faulty FindNodeType: the last fitting entry of the catalog.
FindNodeTypeLast(app) ==
  LET fits == {i \in 1..Len(DEDICATED_NODE_TYPES) :
                 NodeFits(DEDICATED_NODE_TYPES[i], app)}
  IN  IF fits = {} THEN Null
      ELSE DEDICATED_NODE_TYPES[CHOOSE i \in fits : \A j \in fits : i >= j]

\* DEDICATED_NODE_TYPES.find(...): the first entry in catalog order that
\* fits, or null (find's undefined, which the code tests with !nodeType).
FindNodeType(app) ==
  LET fits == {i \in 1..Len(DEDICATED_NODE_TYPES) :
                 NodeFits(DEDICATED_NODE_TYPES[i], app)}
  IN  IF fits = {} THEN Null
      ELSE DEDICATED_NODE_TYPES[CHOOSE i \in fits : \A j \in fits : i <= j]

\* Math.floor(a / b) for a > 0 and b >= 0: division by 0 is +Infinity.
FloorDivJS(a, b) == IF b = 0 THEN Infinity ELSE a \div b

\* Math.min of three values, Infinity included.
Min3(a, b, c) ==
  LET ab == IF a <= b THEN a ELSE b
  IN  IF ab <= c THEN ab ELSE c

\* A faulty CeilDivJS: Math.floor where the code has Math.ceil.
CeilDivJSFloor(r, p) == IF p = Infinity THEN 0 ELSE r \div p

\* A faulty CeilDivJS: Math.round where the code has Math.ceil.
CeilDivJSRound(r, p) == IF p = Infinity THEN 0 ELSE (2 * r + p) \div (2 * p)

\* Math.ceil(r / p) for p > 0: r / Infinity is 0.
CeilDivJS(r, p) == IF p = Infinity THEN 0 ELSE 0 - ((0 - r) \div p)

\* perNodeCapacity of app on nodeType.
PerNodeCapacity(nodeType, app) ==
  Min3(FloorDivJS(nodeType.cpu, app.cpu),
       FloorDivJS(nodeType.ram, app.ram),
       IF app.gpu > 0 THEN FloorDivJS(nodeType.gpu, app.gpu) ELSE Infinity)

\* nodesNeeded for a replica count and a per-node capacity.
NodesNeeded(replicas, perNodeCapacity) ==
  IF perNodeCapacity > 0 THEN CeilDivJS(replicas, perNodeCapacity) ELSE 0

NoNodeWarning == "No suitable node type found for one or more apps."

\* One iteration of the loop of getPerAppDedicatedNodes: acc is
\* {perApp, totalNodes, warning} so far.
PerAppStep(app, useMinReplicas, acc) ==
  LET replicas == IF useMinReplicas THEN app.minReplicas ELSE app.replicas
      nodeType == FindNodeType(app)
  IN  IF nodeType = Null
        THEN [perApp |-> Append(acc.perApp,
                [nodeType        |-> Null,
                 nodeTypeName    |-> "N/A",
                 replicas        |-> replicas,
                 nodesNeeded     |-> 0,
                 perNodeCapacity |-> 0,
                 plan            |-> "Dedicated (N/A)",
                 minReplicas     |-> app.minReplicas]),
              totalNodes |-> acc.totalNodes,
              warning    |-> NoNodeWarning]
        ELSE LET perNodeCapacity == PerNodeCapacity(nodeType, app)
                 nodesNeeded     == NodesNeeded(replicas, perNodeCapacity)
             IN  [perApp |-> Append(acc.perApp,
                    [nodeType        |-> nodeType,
                     nodeTypeName    |-> nodeType.name,
                     replicas        |-> replicas,
                     nodesNeeded     |-> nodesNeeded,
                     perNodeCapacity |-> perNodeCapacity,
                     plan            |-> "Dedicated (" \o nodeType.name \o ")",
                     minReplicas     |-> app.minReplicas]),
                  totalNodes |-> acc.totalNodes + nodesNeeded,
                  warning    |-> acc.warning]

RECURSIVE PerAppLoopBreak(_, _, _, _)
\* A faulty PerAppLoop: the loop ends (break) at the first app without a
\* node type, where the code goes on to the next app (continue).
PerAppLoopBreak(as, useMinReplicas, i, acc) ==
  IF i > Len(as) THEN acc
  ELSE IF FindNodeType(as[i]) = Null
    THEN PerAppStep(as[i], useMinReplicas, acc)
    ELSE PerAppLoopBreak(as, useMinReplicas, i + 1,
                         PerAppStep(as[i], useMinReplicas, acc))

RECURSIVE PerAppLoop(_, _, _, _)
\* for (const app of apps) { ... }
PerAppLoop(as, useMinReplicas, i, acc) ==
  IF i > Len(as) THEN acc
  ELSE PerAppLoop(as, useMinReplicas, i + 1,
                  PerAppStep(as[i], useMinReplicas, acc))

getPerAppDedicatedNodes(as, useMinReplicas) ==
  PerAppLoop(as, useMinReplicas, 1,
             [perApp |-> <<>>, totalNodes |-> 0, warning |-> Undefined])

(***************************************************************************)
(* Validation and the planner.                                             *)
(***************************************************************************)
NoError == "<null>"

CpuError == "CPU must not exceed 4 for Consumption plan."

RamError == "RAM must not exceed 8GB for Consumption plan."

GpuError == "GPU is not supported for Consumption plan."

\* Whether validateAppInput treats app as a Consumption app.
IsConsumption(app, choice) ==
  choice = "Consumption" \/ (choice = "Mix" /\ app.plan = "Consumption")

validateAppInput(app, choice) ==
  IF IsConsumption(app, choice)
    THEN IF app.cpu > 4 THEN CpuError
         ELSE IF app.ram > 8 THEN RamError
         ELSE IF app.gpu > 0 THEN GpuError
         ELSE NoError
    ELSE NoError

RECURSIVE SumSeq(_)
\* reduce((sum, x) => sum + x, 0)
SumSeq(s) == IF Len(s) = 0 THEN 0 ELSE Head(s) + SumSeq(Tail(s))

\* app.minReplicas || 1
MinReplicasOr1(app) == IF app.minReplicas = 0 THEN 1 ELSE app.minReplicas

MinSubnetWarning == "Minimum subnet size for integration is /27!"

\* A faulty SubnetWarning: the comparison is bits < 27.
SubnetWarningBelow27(subnet) ==
  LET bits == IF StartsWithSlash(subnet) THEN parseInt(Slice1(subnet))
              ELSE IF AllDigits(subnet) THEN parseInt(subnet)
              ELSE Null
  IN  IF bits.k = "num" /\ bits.v < 27 THEN MinSubnetWarning ELSE ""

\* The subnet check at the head of calculate: only "/N" and bare "N" are
\* parsed here; a dotted-decimal mask leaves bits null.
SubnetWarning(subnet) ==
  LET bits == IF StartsWithSlash(subnet) THEN parseInt(Slice1(subnet))
              ELSE IF AllDigits(subnet) THEN parseInt(subnet)
              ELSE Null
  IN  IF bits.k = "num" /\ bits.v > 27 THEN MinSubnetWarning ELSE ""

\* warning || w
WarningOr(warning, w) == IF warning # "" THEN warning ELSE w

\* The appAssignments row of a Consumption app.
ConsAssignment(app) ==
  [plan        |-> "Consumption",
   replicas    |-> app.replicas,
   minReplicas |-> app.minReplicas,
   ipUsed      |-> CeilDivJS(app.replicas, 10),
   nodeType    |-> "-",
   nodes       |-> "-"]

\* The appAssignments row of a Dedicated app, from its perApp entry.
DedAssignment(appRes) ==
  [plan            |-> appRes.plan,
   replicas        |-> appRes.replicas,
   minReplicas     |-> appRes.minReplicas,
   nodeType        |-> appRes.nodeTypeName,
   nodes           |-> appRes.nodesNeeded,
   perNodeCapacity |-> appRes.perNodeCapacity]

\* The pieces of the details line: one per Consumption app and one per
\* Dedicated app (the code joins their texts with "; ").
ConsDetail(app) == [ips |-> CeilDivJS(app.replicas, 10), plan |-> "Consumption"]

DedDetail(a) ==
  [nodesNeeded     |-> a.nodesNeeded,
   nodeTypeName    |-> a.nodeTypeName,
   perNodeCapacity |-> a.perNodeCapacity]

IsConsApp(a) == a.plan = "Consumption"

IsDedApp(a) == a.plan = "Dedicated"

\* The Mix branch of calculate.
CalculateMix(as, warning) ==
  LET consApps  == SelectSeq(as, IsConsApp)
      dedApps   == SelectSeq(as, IsDedApp)
      consIPs   == SumSeq([i \in 1..Len(consApps) |->
                             CeilDivJS(consApps[i].replicas, 10)])
      dedResult == getPerAppDedicatedNodes(dedApps, FALSE)
      dedIPs    == dedResult.totalNodes
  IN  [plan            |-> "Mix",
       ips             |-> consIPs + dedIPs,
       doubledIPs      |->
         SumSeq([i \in 1..Len(consApps) |->
                   CeilDivJS(MinReplicasOr1(consApps[i]), 10)])
         + getPerAppDedicatedNodes(dedApps, TRUE).totalNodes,
       details         |-> [kind  |-> "items",
                            items |-> [i \in 1..Len(consApps) |-> ConsDetail(consApps[i])]
                                      \o [i \in 1..Len(dedResult.perApp) |-> DedDetail(dedResult.perApp[i])]],
       appAssignments  |-> [i \in 1..Len(consApps) |-> ConsAssignment(consApps[i])]
                           \o [i \in 1..Len(dedResult.perApp) |-> DedAssignment(dedResult.perApp[i])],
       warning         |-> WarningOr(warning, dedResult.warning),
       perAppDedicated |-> dedResult.perApp,
       minReplicas     |-> SumSeq([i \in 1..Len(as) |-> MinReplicasOr1(as[i])])]

\* The Consumption branch of calculate.
CalculateConsumption(as, warning) ==
  [plan           |-> "Consumption",
   ips            |-> SumSeq([i \in 1..Len(as) |->
                                CeilDivJS(as[i].replicas, 10)]),
   doubledIPs     |-> SumSeq([i \in 1..Len(as) |->
                                CeilDivJS(MinReplicasOr1(as[i]), 10)]),
   details        |-> [kind |-> "count", n |-> Len(as)],
   appAssignments |-> [i \in 1..Len(as) |-> ConsAssignment(as[i])],
   warning        |-> warning,
   minReplicas    |-> SumSeq([i \in 1..Len(as) |-> MinReplicasOr1(as[i])])]

\* The Dedicated branch of calculate.
CalculateDedicated(as, warning) ==
  LET dedResult == getPerAppDedicatedNodes(as, FALSE)
  IN  [plan            |-> "Dedicated",
       ips             |-> dedResult.totalNodes,
       doubledIPs      |-> getPerAppDedicatedNodes(as, TRUE).totalNodes,
       details         |-> IF dedResult.warning # Undefined
                             THEN [kind |-> "text", text |-> dedResult.warning]
                             ELSE [kind  |-> "items",
                                   items |-> [i \in 1..Len(dedResult.perApp) |-> DedDetail(dedResult.perApp[i])]],
       appAssignments  |-> [i \in 1..Len(dedResult.perApp) |-> DedAssignment(dedResult.perApp[i])],
       warning         |-> WarningOr(warning, dedResult.warning),
       perAppDedicated |-> dedResult.perApp,
       minReplicas     |-> SumSeq([i \in 1..Len(as) |-> MinReplicasOr1(as[i])])]

\* A faulty calculate: an app without a node type ends the call in an
\* error instead of a result.
calculateThrowing(as, subnet, choice) ==
  LET warning == SubnetWarning(subnet)
  IN  IF choice = "Mix" THEN CalculateMix(as, warning)
      ELSE IF choice = "Consumption" THEN CalculateConsumption(as, warning)
      ELSE IF \E i \in 1..Len(as) : FindNodeType(as[i]) = Null
        THEN [error |-> "TypeError"]
        ELSE CalculateDedicated(as, warning)

calculate(as, subnet, choice) ==
  LET warning == SubnetWarning(subnet)
  IN  IF choice = "Mix" THEN CalculateMix(as, warning)
      ELSE IF choice = "Consumption" THEN CalculateConsumption(as, warning)
      ELSE CalculateDedicated(as, warning)

(***************************************************************************)
(* The handlers of Home().                                                 *)
(***************************************************************************)
PlanTypes == {"Consumption", "Dedicated"}

PlanChoices == {"Consumption", "Dedicated", "Mix"}

NumericFields == {"cpu", "gpu", "ram", "minReplicas", "replicas"}

\* The app the form starts with.
InitialApp ==
  [cpu |-> 0, gpu |-> 0, ram |-> 0, minReplicas |-> 1, replicas |-> 1,
   plan |-> "Consumption"]

\* Number(value) for the text a number input delivers: decimal digits, or
\* the empty string (which is 0).
NumberOf(value) == IF Len(value) = 0 THEN 0 ELSE DecimalValue(value)

\* handleAppChange(idx, field, value): value is the text of the input for
\* a numeric field and the option chosen for "plan".
handleAppChange(idx, field, value) ==
  /\ idx \in 1..Len(apps)
  /\ apps' = [apps EXCEPT ![idx] =
                [@ EXCEPT ![field] =
                   IF field = "plan" THEN value ELSE NumberOf(value)]]
  /\ UNCHANGED <<subnetSize, planChoice, result, inputErrors, availableIPs>>

\* A faulty addApp: the new app never carries a plan tag.
addAppUntagged ==
  /\ apps' = Append(apps,
               [cpu |-> 0, gpu |-> 0, ram |-> 0, minReplicas |-> 1,
                replicas |-> 1, plan |-> Undefined])
  /\ UNCHANGED <<subnetSize, planChoice, result, inputErrors, availableIPs>>

addApp ==
  /\ apps' = Append(apps,
               [cpu |-> 0, gpu |-> 0, ram |-> 0, minReplicas |-> 1,
                replicas |-> 1,
                plan |-> IF planChoice = "Mix" THEN "Consumption"
                         ELSE Undefined])
  /\ UNCHANGED <<subnetSize, planChoice, result, inputErrors, availableIPs>>

removeApp(idx) ==
  /\ apps' = LET kept == SelectSeq([i \in 1..Len(apps) |-> i],
                                   LAMBDA i : i # idx)
             IN  [j \in 1..Len(kept) |-> apps[kept[j]]]
  /\ UNCHANGED <<subnetSize, planChoice, result, inputErrors, availableIPs>>

RECURSIVE CollectErrorsFailFast(_, _, _, _)
\* A faulty CollectErrors: validation stops at the first app in error.
CollectErrorsFailFast(as, choice, i, errors) ==
  IF i > Len(as) \/ Len(errors) > 0 THEN errors
  ELSE LET err == validateAppInput(as[i], choice)
       IN  CollectErrorsFailFast(as, choice, i + 1,
             IF err # NoError
               THEN Append(errors, [app |-> i, err |-> err])
               ELSE errors)

RECURSIVE CollectErrors(_, _, _, _)
\* apps.forEach((app, idx) => { ... errors.push(...) }): one entry per app
\* for which validateAppInput returns a message.  The entry stands for the
\* text `App ${app.name || idx + 1}: ${err}`.
CollectErrors(as, choice, i, errors) ==
  IF i > Len(as) THEN errors
  ELSE LET err == validateAppInput(as[i], choice)
       IN  CollectErrors(as, choice, i + 1,
             IF err # NoError
               THEN Append(errors, [app |-> i, err |-> err])
               ELSE errors)

\* A faulty handleSubmit: the early return on errors is missing.
handleSubmitNoReturn ==
  /\ inputErrors' = CollectErrors(apps, planChoice, 1, <<>>)
  /\ result' = calculate(apps, subnetSize, planChoice)
  /\ UNCHANGED <<apps, subnetSize, planChoice, availableIPs>>

handleSubmit ==
  LET errors == CollectErrors(apps, planChoice, 1, <<>>)
  IN  /\ inputErrors' = errors
      /\ IF Len(errors) > 0
           THEN result' = result
           ELSE result' = calculate(apps, subnetSize, planChoice)
      /\ UNCHANGED <<apps, subnetSize, planChoice, availableIPs>>

handlePlanChoiceChange(value) ==
  /\ planChoice' = value
  /\ apps' = IF value # "Mix"
               THEN [i \in 1..Len(apps) |-> [apps[i] EXCEPT !.plan = Undefined]]
               ELSE [i \in 1..Len(apps) |-> [apps[i] EXCEPT !.plan = "Consumption"]]
  /\ UNCHANGED <<subnetSize, result, inputErrors, availableIPs>>

\* The subnet input's onChange, and the render that follows it, in which
\* availableIPs is recomputed from the new text.
setSubnetSize(value) ==
  /\ subnetSize' = value
  /\ availableIPs' = getAvailableIPs(value)
  /\ UNCHANGED <<apps, planChoice, result, inputErrors>>

(***************************************************************************)
(* The baseline variant (src/unnamed/part_003): apps carry a baseline      *)
(* replica count between the minimum and the maximum.  Its calculate,      *)
(* getPerAppDedicatedNodes and validateAppInput are line for line those of *)
(* the per-app-SKU variant.                                                *)
(***************************************************************************)
CpuPositiveError == "CPU must be greater than 0."

RamPositiveError == "RAM must be greater than 0."

MinMaxError == "Min Replicas must be less than or equal to Max Replicas."

BaselineError == "Baseline Replicas must be between Min and Max Replicas."

\* The entries validateAllApps pushes for the app at position i, in order.
AppErrors(app, i, choice) ==
  LET err == validateAppInput(app, choice)
      E(cond, text) == IF cond THEN <<[app |-> i, err |-> text]>> ELSE <<>>
  IN  E(err # NoError, err)
      \o E(app.cpu <= 0, CpuPositiveError)
      \o E(app.ram <= 0, RamPositiveError)
      \o E(app.minReplicas > app.replicas, MinMaxError)
      \o E(app.baselineReplicas < app.minReplicas
             \/ app.baselineReplicas > app.replicas, BaselineError)

\* A faulty AppErrors: the Consumption limits alone, as in the variants
\* without a baseline.
AppErrorsLimitsOnly(app, i, choice) ==
  LET err == validateAppInput(app, choice)
  IN  IF err # NoError THEN <<[app |-> i, err |-> err]>> ELSE <<>>

RECURSIVE validateAllAppsLimitsOnly(_, _)
\* A faulty validateAllApps, built on AppErrorsLimitsOnly.
validateAllAppsLimitsOnly(as, choice) ==
  IF Len(as) = 0 THEN <<>>
  ELSE validateAllAppsLimitsOnly(SubSeq(as, 1, Len(as) - 1), choice)
       \o AppErrorsLimitsOnly(as[Len(as)], Len(as), choice)

RECURSIVE validateAllApps(_, _)
\* apps.forEach((app, idx) => { ... }); return errors
validateAllApps(as, choice) ==
  IF Len(as) = 0 THEN <<>>
  ELSE validateAllApps(SubSeq(as, 1, Len(as) - 1), choice)
       \o AppErrors(as[Len(as)], Len(as), choice)

\* handleSubmit of the baseline variant.
handleSubmitBaseline ==
  LET errors == validateAllApps(apps, planChoice)
  IN  /\ inputErrors' = errors
      /\ IF Len(errors) > 0
           THEN result' = result
           ELSE result' = calculate(apps, subnetSize, planChoice)
      /\ UNCHANGED <<apps, subnetSize, planChoice, availableIPs>>

\* The app the form of the baseline variant starts with.
InitialAppBaseline ==
  [cpu |-> 0, gpu |-> 0, ram |-> 0, minReplicas |-> 1, baselineReplicas |-> 1,
   replicas |-> 1, plan |-> "Consumption", baselineTouched |-> FALSE]

\* Math.max over two and three numbers.
Max2(a, b) == IF a >= b THEN a ELSE b

Max3(a, b, c) == Max2(Max2(a, b), c)

\* Math.round(min + (max - min) / 2): the midpoint, a half rounded up.
MidBaseline(min, max) == (min + max + 1) \div 2

\* The messages handleAppChange shows for four seconds.
BaselineAboveMaxMessage ==
  "Baseline Replicas cannot be greater than Max Replicas. Both set to"

MinAboveMessage ==
  "Min Replicas cannot be greater than Max or Baseline. All set to"

MustBePositiveMessage == "must be greater than 0. Value set to 1."

\* handleAppChange of the baseline variant on one app: the updated app and
\* the validation message ("" when there is none).
ChangedAppBaseline(app, field, value) ==
  IF field = "plan" THEN [app |-> [app EXCEPT !.plan = value], message |-> ""]
  ELSE IF field = "baselineReplicas" THEN
    LET u == [app EXCEPT !.baselineReplicas = NumberOf(value),
                         !.baselineTouched = TRUE]
    IN  IF u.baselineReplicas > u.replicas
          THEN LET biggest == Max2(u.baselineReplicas, u.replicas)
               IN  [app |-> [u EXCEPT !.baselineReplicas = biggest,
                                      !.replicas = biggest,
                                      !.baselineTouched = FALSE],
                    message |-> BaselineAboveMaxMessage]
          ELSE [app |-> u, message |-> ""]
  ELSE
    LET u0 == [app EXCEPT ![field] = NumberOf(value)]
        positive == field \in {"cpu", "ram"} /\ u0[field] <= 0
        u1 == IF positive THEN [u0 EXCEPT ![field] = 1] ELSE u0
        m1 == IF positive THEN MustBePositiveMessage ELSE ""
        lifted == /\ field = "minReplicas"
                  /\ \/ u1.minReplicas > u1.replicas
                     \/ u1.minReplicas > u1.baselineReplicas
        biggest == Max3(u1.minReplicas, u1.replicas, u1.baselineReplicas)
        u2 == IF lifted
                THEN [u1 EXCEPT !.minReplicas = biggest, !.replicas = biggest,
                                !.baselineReplicas = biggest,
                                !.baselineTouched = FALSE]
                ELSE u1
        m2 == IF lifted THEN MinAboveMessage ELSE m1
        follow == /\ field \in {"replicas", "minReplicas"}
                  /\ ~ u2.baselineTouched
                  /\ m2 = ""
        u3 == IF follow
                THEN [u2 EXCEPT !.baselineReplicas =
                                   MidBaseline(u2.minReplicas, u2.replicas)]
                ELSE u2
    IN  [app |-> u3, message |-> m2]

\* handleAppChange of the baseline variant.
handleAppChangeBaseline(idx, field, value) ==
  LET out == ChangedAppBaseline(apps[idx], field, value)
  IN  /\ idx \in 1..Len(apps)
      /\ apps' = [apps EXCEPT ![idx] = out.app]
      /\ inputErrors' = IF out.message # ""
                          THEN <<[app |-> idx, err |-> out.message]>>
                          ELSE inputErrors
      /\ UNCHANGED <<subnetSize, planChoice, result, availableIPs>>

\* The callback of setTimeout(() => setInputErrors([]), 4000).
clearInputErrors ==
  /\ inputErrors # <<>>
  /\ inputErrors' = <<>>
  /\ UNCHANGED <<apps, subnetSize, planChoice, result, availableIPs>>

\* addApp of the baseline variant.
addAppBaseline ==
  /\ apps' = Append(apps,
               [cpu |-> 0, gpu |-> 0, ram |-> 0, minReplicas |-> 1,
                baselineReplicas |-> MidBaseline(1, 1), replicas |-> 1,
                plan |-> IF planChoice = "Mix" THEN "Consumption"
                         ELSE Undefined,
                baselineTouched |-> FALSE])
  /\ UNCHANGED <<subnetSize, planChoice, result, inputErrors, availableIPs>>

(***************************************************************************)
(* The co-packing variant (src/app/page.tsx): the Dedicated apps share one *)
(* node type and are packed together onto nodes.  Its catalog and its      *)
(* validateAppInput are those of the per-app-SKU variant; its apps have no *)
(* minimum replica count.  Apps are unnamed, so that the packing names the *)
(* app at position i "(App i)"; the model keeps the position.              *)
(***************************************************************************)
\* apps.forEach(app => { max = Math.max(max, app[field]) }) from max = 0.
MaxOver(as, field) ==
  LET vals == {0} \cup {as[i][field] : i \in 1..Len(as)}
  IN  CHOOSE m \in vals : \A v \in vals : v <= m

\* The per-replica requirement the shared node type is sized to.
MaxRequirement(as) ==
  [cpu |-> MaxOver(as, "cpu"), ram |-> MaxOver(as, "ram"),
   gpu |-> MaxOver(as, "gpu")]

\* A faulty FindSharedNodeType: the last entry that fits, not the first.
FindSharedNodeTypeLast(as) == FindNodeTypeLast(MaxRequirement(as))

\* DEDICATED_NODE_TYPES.find(node => node.cpu >= maxCpu && ...)
FindSharedNodeType(as) == FindNodeType(MaxRequirement(as))

\* Math.floor(a / b) for a >= 0 and b >= 0: n / 0 is +Infinity, 0 / 0 NaN.
FloorDivNum(a, b) ==
  IF b = 0 THEN (IF a = 0 THEN NaN ELSE Num(Infinity)) ELSE Num(a \div b)

RECURSIVE MinJS(_)
\* Math.min of a list of numbers: NaN if one of them is NaN.
MinJS(xs) ==
  IF Len(xs) = 1 THEN xs[1]
  ELSE LET rest == MinJS(Tail(xs))
       IN  IF xs[1] = NaN \/ rest = NaN THEN NaN
           ELSE IF xs[1].v <= rest.v THEN xs[1] ELSE rest

\* A faulty FitOf: the app's remaining replica count does not cap what is
\* put on the node.
FitOfUncapped(app, nodeCpu, nodeRam, nodeGpu) ==
  MinJS(<<FloorDivNum(nodeCpu, app.cpu),
          FloorDivNum(nodeRam, app.ram),
          IF app.gpu > 0 THEN FloorDivNum(nodeGpu, app.gpu)
          ELSE Num(Infinity)>>)

\* fit: how many replicas of app go onto what is left of the node.
FitOf(app, nodeCpu, nodeRam, nodeGpu) ==
  MinJS(<<Num(app.replicas),
          FloorDivNum(nodeCpu, app.cpu),
          FloorDivNum(nodeRam, app.ram),
          IF app.gpu > 0 THEN FloorDivNum(nodeGpu, app.gpu)
          ELSE Num(Infinity)>>)

RECURSIVE FillNode(_, _, _, _, _)
\* for (let i = 0; i < remaining.length; i++) { ... } for one node: st is
\* {remaining, nodeApps, perAppNodes} so far.
FillNode(st, i, nodeCpu, nodeRam, nodeGpu) ==
  IF i > Len(st.remaining) THEN st
  ELSE LET app == st.remaining[i]
           fit == FitOf(app, nodeCpu, nodeRam, nodeGpu)
       IN  IF fit # NaN /\ fit.v > 0
             THEN FillNode(
                    [st EXCEPT
                       !.nodeApps = Append(@, [app |-> i, replicas |-> fit.v]),
                       !.remaining[i].replicas = @ - fit.v,
                       !.perAppNodes[i] = @ + 1],
                    i + 1,
                    nodeCpu - fit.v * app.cpu,
                    nodeRam - fit.v * app.ram,
                    nodeGpu - fit.v * app.gpu)
             ELSE FillNode(st, i + 1, nodeCpu, nodeRam, nodeGpu)

RECURSIVE PackLoop(_, _, _, _, _)
\* while (remaining.some(app => app.replicas > 0)) { ... }
PackLoop(remaining, nodeType, nodes, assignment, perAppNodes) ==
  IF \A i \in 1..Len(remaining) : remaining[i].replicas <= 0
    THEN [remaining |-> remaining, nodes |-> nodes,
          assignment |-> assignment, perAppNodes |-> perAppNodes]
    ELSE LET st == FillNode([remaining |-> remaining, nodeApps |-> <<>>,
                             perAppNodes |-> perAppNodes],
                            1, nodeType.cpu, nodeType.ram, nodeType.gpu)
         IN  PackLoop(st.remaining, nodeType, nodes + 1,
                      Append(assignment,
                             [node |-> nodes + 1, apps |-> st.nodeApps]),
                      st.perAppNodes)

\* A faulty packDedicatedNodes: the loop works on the caller's records
\* (remaining = apps), so that their replica counts are used up.
packDedicatedNodesInPlace(as) ==
  LET nodeType == FindSharedNodeType(as)
  IN  IF nodeType = Null
        THEN [nodeType |-> Null, nodes |-> 0, assignment |-> <<>>, apps |-> as]
        ELSE LET packed == PackLoop(as, nodeType, 0, <<>>,
                                    [i \in 1..Len(as) |-> 0])
             IN  [nodeType |-> nodeType, nodes |-> packed.nodes,
                  assignment |-> packed.assignment,
                  apps |-> packed.remaining]

\* packDedicatedNodes.  The loop runs on remaining, a copy of the records
\* (apps.map(app => ({ ...app }))); the field apps is the caller's records
\* as they are on return.
packDedicatedNodes(as) ==
  LET nodeType == FindSharedNodeType(as)
  IN  IF nodeType = Null
        THEN [nodeType |-> Null, nodes |-> 0, assignment |-> <<>>, apps |-> as]
        ELSE LET packed == PackLoop(as, nodeType, 0, <<>>,
                                    [i \in 1..Len(as) |-> 0])
             IN  [nodeType |-> nodeType, nodes |-> packed.nodes,
                  assignment |-> packed.assignment,
                  apps |-> as]

\* getDedicatedNodesPerApp: the same search and loop, which also counts for
\* each app the nodes it is placed on.
getDedicatedNodesPerApp(as) ==
  LET nodeType == FindSharedNodeType(as)
  IN  IF nodeType = Null
        THEN [nodeType |-> Null, perAppNodes |-> <<>>, nodes |-> 0,
              assignment |-> <<>>, apps |-> as]
        ELSE LET packed == PackLoop(as, nodeType, 0, <<>>,
                                    [i \in 1..Len(as) |-> 0])
             IN  [nodeType |-> nodeType, perAppNodes |-> packed.perAppNodes,
                  nodes |-> packed.nodes, assignment |-> packed.assignment,
                  apps |-> as]

\* The subnet check at the head of calculate in this variant: bits < 27.
SubnetWarningPacked(subnet) ==
  LET bits == IF StartsWithSlash(subnet) THEN parseInt(Slice1(subnet))
              ELSE IF AllDigits(subnet) THEN parseInt(subnet)
              ELSE Null
  IN  IF bits.k = "num" /\ bits.v < 27 THEN MinSubnetWarning ELSE ""

PackedNoNodeWarning == "No suitable node type found for app requirements."

\* The appAssignments row of a Consumption app in this variant.
ConsAssignmentPacked(app) ==
  [plan     |-> "Consumption",
   replicas |-> app.replicas,
   ipUsed   |-> CeilDivJS(app.replicas, 10),
   nodeType |-> "-",
   nodes    |-> "-"]

\* `Dedicated (${nodeType.name})` or "Dedicated (N/A)".
DedicatedPlanLabel(nodeType) ==
  IF nodeType # Null THEN "Dedicated (" \o nodeType.name \o ")"
  ELSE "Dedicated (N/A)"

RECURSIVE PutBack(_, _)
\* The app list in which the Dedicated records are the records ded, in
\* order: apps.filter keeps references, so dedApps holds the caller's
\* records themselves.
PutBack(as, ded) ==
  IF Len(as) = 0 THEN <<>>
  ELSE IF IsDedApp(as[1]) THEN <<ded[1]>> \o PutBack(Tail(as), Tail(ded))
  ELSE <<as[1]>> \o PutBack(Tail(as), ded)

\* The Mix branch of calculate.
CalculateMixPacked(as, warning) ==
  LET consApps == SelectSeq(as, IsConsApp)
      dedApps  == SelectSeq(as, IsDedApp)
      consIPs  == SumSeq([i \in 1..Len(consApps) |->
                            CeilDivJS(consApps[i].replicas, 10)])
      packed   == IF Len(dedApps) > 0 THEN packDedicatedNodes(dedApps)
                  ELSE [nodeType |-> Null, nodes |-> 0, assignment |-> <<>>,
                        apps |-> dedApps]
      totalIPs == consIPs + packed.nodes
  IN  [result |->
         [plan           |-> "Mix",
          ips            |-> totalIPs,
          doubledIPs     |-> totalIPs * 2,
          details        |-> [kind |-> "counts", cons |-> Len(consApps),
                              ded |-> Len(dedApps)],
          appAssignments |->
            [i \in 1..Len(consApps) |-> ConsAssignmentPacked(consApps[i])]
            \o [i \in 1..Len(dedApps) |->
                  [plan     |-> DedicatedPlanLabel(packed.nodeType),
                   replicas |-> packed.apps[i].replicas,
                   ipUsed   |-> "-",
                   nodeType |-> IF packed.nodeType # Null
                                  THEN packed.nodeType.name ELSE "-",
                   nodes    |-> packed.nodes]],
          warning        |-> warning,
          nodeType       |-> packed.nodeType,
          nodes          |-> packed.nodes,
          assignment     |-> packed.assignment],
       apps |-> PutBack(as, packed.apps)]

\* The Consumption branch of calculate.
CalculateConsumptionPacked(as, warning) ==
  LET totalIPs == SumSeq([i \in 1..Len(as) |-> CeilDivJS(as[i].replicas, 10)])
  IN  [result |->
         [plan           |-> "Consumption",
          ips            |-> totalIPs,
          doubledIPs     |-> totalIPs * 2,
          details        |-> [kind |-> "count", n |-> Len(as)],
          appAssignments |->
            [i \in 1..Len(as) |-> ConsAssignmentPacked(as[i])],
          warning        |-> warning],
       apps |-> as]

\* The Dedicated branch of calculate.  The rows look their nodes up under
\* the key "(unnamed)" while the packing names an unnamed app "(App i)", so
\* nodesAssigned is "-" for the unnamed apps of the model.
CalculateDedicatedPacked(as) ==
  LET packed == getDedicatedNodesPerApp(as)
  IN  [result |->
         [plan           |-> "Dedicated",
          ips            |-> packed.nodes,
          doubledIPs     |-> packed.nodes * 2,
          details        |-> IF packed.nodeType # Null
                               THEN [kind |-> "node",
                                     nodeTypeName |-> packed.nodeType.name,
                                     nodes |-> packed.nodes]
                               ELSE [kind |-> "text",
                                     text |-> PackedNoNodeWarning],
          appAssignments |->
            [i \in 1..Len(as) |->
               [plan          |-> DedicatedPlanLabel(packed.nodeType),
                replicas      |-> packed.apps[i].replicas,
                nodesAssigned |-> "-"]],
          warning        |-> IF packed.nodeType # Null THEN Undefined
                             ELSE PackedNoNodeWarning,
          nodeType       |-> packed.nodeType,
          nodes          |-> packed.nodes,
          assignment     |-> packed.assignment],
       apps |-> packed.apps]

\* calculate of the co-packing variant: what it returns, and the caller's
\* app records as they are on return.
calculatePacked(as, subnet, choice) ==
  LET warning == SubnetWarningPacked(subnet)
  IN  IF choice = "Mix" THEN CalculateMixPacked(as, warning)
      ELSE IF choice = "Consumption"
        THEN CalculateConsumptionPacked(as, warning)
      ELSE CalculateDedicatedPacked(as)

\* handleSubmit of the co-packing variant.
handleSubmitPacked ==
  LET errors == CollectErrors(apps, planChoice, 1, <<>>)
  IN  /\ inputErrors' = errors
      /\ IF Len(errors) > 0
           THEN result' = result /\ apps' = apps
           ELSE LET out == calculatePacked(apps, subnetSize, planChoice)
                IN  result' = out.result /\ apps' = out.apps
      /\ UNCHANGED <<subnetSize, planChoice, availableIPs>>

(***************************************************************************)
(* The reserved-IP variant (src/unnamed/part_002): the co-packing variant  *)
(* before validation was added.  Its packing and its calculate are those   *)
(* of page.tsx except that totalIPs starts from the 14 infrastructure      *)
(* addresses instead of 0.                                                 *)
(***************************************************************************)
\* let totalIPs = 14; // 14 reserved for infra
ReservedForInfra == 14

\* totalIPs of a plan: the app IPs calculate adds up, on top of the 14 it
\* starts from; doubledIPs is totalIPs * 2.
WithInfra(out) ==
  [result |-> [out.result EXCEPT
                 !.ips = ReservedForInfra + out.result.ips,
                 !.doubledIPs = (ReservedForInfra + out.result.ips) * 2],
   apps   |-> out.apps]

\* calculate of the reserved-IP variant: totalIPs += the app IPs, and
\* doubledIPs is totalIPs * 2.
calculateReserved(as, subnet, choice) ==
  WithInfra(calculatePacked(as, subnet, choice))

\* handleSubmit of the reserved-IP variant: no validation.
handleSubmitReserved ==
  LET out == calculateReserved(apps, subnetSize, planChoice)
  IN  /\ result' = out.result
      /\ apps' = out.apps
      /\ UNCHANGED <<subnetSize, planChoice, inputErrors, availableIPs>>

\* {availableIPs !== null && result.ips > availableIPs && (<p>Error: Not
\* enough available IPs in the subnet! ...)} in the reserved-IP variant.
ReservedErrorShown ==
  /\ result # Null
  /\ availableIPs # Null /\ result.ips > availableIPs.v

(***************************************************************************)
(* What the result block of the page shows (rendered when result is set).  *)
(***************************************************************************)
\* A faulty PeakErrorShown: the comparison is made with the upgrade total.
PeakErrorShownOnUpgrade ==
  /\ result # Null
  /\ availableIPs # Null /\ result.doubledIPs > availableIPs.v

\* {availableIPs !== null && result.ips > availableIPs && (<p>Error: Not
\* enough available IPs in the subnet! ...)}
PeakErrorShown ==
  /\ result # Null
  /\ availableIPs # Null /\ result.ips > availableIPs.v

\* {availableIPs !== null && result.doubledIPs > availableIPs && (<p>Error:
\* Not enough available IPs for zero-downtime revision updates! ...)}
UpgradeErrorShown ==
  /\ result # Null
  /\ availableIPs # Null /\ result.doubledIPs > availableIPs.v

\* The guard of the row's node assignment.  Rows come from ConsAssignment
\* (nodeType and nodes both "-") or from DedAssignment (nodes a number), so
\* a.nodes !== "-" holds whenever a.nodeType !== "-" does.
HasNodeAssignment(a) ==
  a.nodeType # "-" /\ a.nodes > 0 /\ a.perNodeCapacity > 0

\* One iteration of the loop "for (let node = 1; node <= a.nodes; node++)":
\* the text `Node ${node} (${a.nodeType}): replicas ${start}-${end}`, or
\* `Node ${node} (${a.nodeType})` alone when the app has a single replica.
NodeRange(a, node) ==
  LET endReplica == node * a.perNodeCapacity
  IN  [node         |-> node,
       startReplica |-> (node - 1) * a.perNodeCapacity + 1,
       endReplica   |-> IF endReplica > a.replicas THEN a.replicas
                        ELSE endReplica,
       ranged       |-> a.replicas # 1]

\* The "Node(s) Assigned" cell of a row of the peak table: the node
\* assignments that are joined with ", ", or none for the cell "-".
NodesAssigned(a) ==
  IF HasNodeAssignment(a)
    THEN [node \in 1..a.nodes |-> NodeRange(a, node)]
    ELSE <<>>

\* The "IPs Used" cell of a row of the peak table; null is the cell "-".
IpsUsed(a) ==
  IF HasNodeAssignment(a) THEN Num(a.nodes)
  ELSE IF a.plan = "Consumption" THEN Num(CeilDivJS(a.replicas, 10))
  ELSE Null

\* The apps the upgrade-phase block accounts under Consumption: it splits
\* the current app list by the plan of the stored result.
UpgradeConsApps ==
  IF result.plan = "Mix" THEN SelectSeq(apps, IsConsApp)
  ELSE IF result.plan = "Consumption" THEN apps
  ELSE <<>>

\* The apps the upgrade-phase block accounts under Dedicated.
UpgradeDedApps ==
  IF result.plan = "Mix" THEN SelectSeq(apps, IsDedApp)
  ELSE IF result.plan = "Dedicated" THEN apps
  ELSE <<>>

\* consRows: ipUsed = Math.ceil((app.minReplicas * 2) / 10) per app.
UpgradeConsRows ==
  [i \in 1..Len(UpgradeConsApps) |->
     [plan        |-> "Consumption",
      minReplicas |-> UpgradeConsApps[i].minReplicas * 2,
      ipUsed      |-> CeilDivJS(UpgradeConsApps[i].minReplicas * 2, 10)]]

\* dedUpgrade: getPerAppDedicatedNodes over copies of the Dedicated apps
\* with minReplicas doubled, useMinReplicas = true.
UpgradeDedResult ==
  getPerAppDedicatedNodes(
    [i \in 1..Len(UpgradeDedApps) |->
       [UpgradeDedApps[i] EXCEPT !.minReplicas = @ * 2]],
    TRUE)

\* upgradeIPs, the "Estimated IPs Used During Upgrades" figure.
UpgradeIPsShown ==
  SumSeq([i \in 1..Len(UpgradeConsRows) |-> UpgradeConsRows[i].ipUsed])
  + UpgradeDedResult.totalNodes

(***************************************************************************)
(* Inputs.                                                                 *)
(***************************************************************************)
\* The largest prefix length written into a subnet text (33 is out of range).
MaxPrefix == 33

\* The largest number of apps in the form.
MaxApps == 2

\* The largest replica count entered for a single app.
MaxReplicas == 5

\* The largest replica count stepped to for a Consumption app.
MaxConsReplicas == 31

\* The largest replica count typed into the form of the baseline variant.
MaxEdit == 3

RECURSIVE Dec(_)
\* The decimal text of n >= 0.
Dec(n) ==
  IF n < 10 THEN <<DigitChars[n + 1]>>
  ELSE Dec(n \div 10) \o <<DigitChars[(n % 10) + 1]>>

\* The three ways of writing prefix length n.
SlashForm(n) == <<"/">> \o Dec(n)

BareForm(n) == Dec(n)

Dotted(o) ==
  Dec(o[1]) \o <<".">> \o Dec(o[2]) \o <<".">> \o Dec(o[3]) \o <<".">> \o Dec(o[4])

\* The octet with k leading one-bits, 0 <= k <= 8.
MaskOctet(k) == 256 - 2 ^ (8 - k)

\* The netmask with n leading one-bits.
MaskForm(n) ==
  Dotted([i \in 1..4 |->
            LET k == n - 8 * (i - 1)
            IN  MaskOctet(IF k < 0 THEN 0 ELSE IF k > 8 THEN 8 ELSE k)])

PrefixForms == {SlashForm(n) : n \in 0..MaxPrefix} \cup {BareForm(n) : n \in 0..MaxPrefix}

\* Text typed after a prefix length.
JunkSuffixes == {<<"a">>, <<".", "5">>, <<" ">>, <<"/">>}

\* Octets of dotted-decimal texts that need not be netmasks.
OddOctets == {0, 255, 999}

SubnetInputs ==
  PrefixForms
  \cup {p \o j : p \in PrefixForms, j \in JunkSuffixes}
  \cup {MaskForm(n) : n \in 0..32}
  \cup {Dotted(o) : o \in [1..4 -> OddOctets]}
  \cup {<<>>, <<"a">>, <<"/">>, <<"/", "a">>, <<"/", "-", "1">>, <<"-", "1">>,
        <<"/", " ", "2", "4">>, <<"1", ".", "2">>}

\* Subnet texts of the planner runs: none, and one below /27.
PlanSubnets == {<<>>, SlashForm(28)}

\* Per-replica requirements around the Consumption limits (cpu 4, ram 8,
\* gpu 0) and beyond the catalog (gpu 5).
PlanApps ==
  {[cpu |-> c, ram |-> r, gpu |-> g, minReplicas |-> m[1], replicas |-> m[2],
    plan |-> p] :
     c \in {1, 5}, r \in {1, 9}, g \in {0, 5}, m \in {<<1, 1>>, <<6, 11>>},
     p \in {"Consumption", "Dedicated", Undefined}}

\* The app lists a form can hold under a plan choice: every app carries a
\* plan tag under Mix, and none does once another choice has been made.
TagsMatch(as, choice) ==
  \A i \in 1..Len(as) : (as[i].plan = Undefined) <=> (choice # "Mix")

SeqsUpTo(S, n) == UNION {[1..k -> S] : k \in 1..n}

\* The values on either side of every capacity of the catalog.
AroundCatalog(field) ==
  {0, 1} \cup UNION {{DEDICATED_NODE_TYPES[i][field],
                      DEDICATED_NODE_TYPES[i][field] + 1} :
                     i \in 1..Len(DEDICATED_NODE_TYPES)}

NodeApps ==
  [cpu : AroundCatalog("cpu"), ram : AroundCatalog("ram"),
   gpu : AroundCatalog("gpu"),
   minReplicas : {1, MaxReplicas}, replicas : 1..MaxReplicas,
   plan : {Undefined}]

\* Apps handed to calculate directly: the untouched app, the app of the
\* /27 scenario, an app no node type fits, and an app whose minimum replica
\* count is above its maximum.
CalcApps ==
  {[cpu |-> a[1], ram |-> a[2], gpu |-> a[3], minReplicas |-> a[4],
    replicas |-> a[5], plan |-> p] :
     a \in {<<0, 0, 0, 1, 1>>, <<1, 2, 0, 2, 25>>, <<1, 1, 5, 1, 1>>,
            <<5, 1, 0, 11, 1>>},
     p \in {"Consumption", "Dedicated", Undefined}}

\* Subnet texts handed to calculate: every prefix length in both forms, two
\* netmasks, and texts that are no subnet.
CalcSubnets ==
  PrefixForms
  \cup {MaskForm(27), MaskForm(28)}
  \cup {<<>>, <<"a">>, <<"/">>, <<"/", "a">>, <<"/", "-", "1">>}

\* Apps of the baseline variant: resources at and around zero and the
\* Consumption cpu limit, and (min, baseline, max) triples in and out of
\* order.
BaselineApps ==
  {[cpu |-> c[1], ram |-> c[2], gpu |-> 0, minReplicas |-> t[1],
    baselineReplicas |-> t[2], replicas |-> t[3], plan |-> p] :
     c \in {<<1, 1>>, <<0, 1>>, <<1, 0>>, <<5, 1>>},
     t \in {<<1, 1, 1>>, <<1, 2, 3>>, <<2, 1, 3>>, <<1, 4, 3>>, <<3, 3, 2>>},
     p \in {"Consumption", "Dedicated", Undefined}}

\* Apps of the co-packing variant: requirements that resolve to different
\* node types on their own (D4, D32, E16, NC24-A100), one nothing fits
\* (gpu 5), and the untouched app.
PackApps ==
  {[cpu |-> q[1], ram |-> q[2], gpu |-> q[3], replicas |-> r, plan |-> p] :
     q \in {<<0, 0, 0>>, <<1, 1, 0>>, <<3, 4, 0>>, <<17, 1, 0>>,
            <<1, 129, 0>>, <<1, 1, 1>>, <<1, 1, 5>>},
     r \in {1, 3},
     p \in {"Consumption", "Dedicated", Undefined}}

\* Apps for the packing loop: no requirement at all, a requirement that
\* fills a D4 node exactly with 4 replicas (cpu 1, ram 4), one that leaves
\* a remainder (cpu 3, ram 4), a GPU app, an app nothing fits, and replica
\* counts 0, 1 and 4.
PackingApps ==
  {[cpu |-> q[1], ram |-> q[2], gpu |-> q[3], replicas |-> r, plan |-> p] :
     q \in {<<0, 0, 0>>, <<1, 4, 0>>, <<3, 4, 0>>, <<1, 1, 1>>, <<1, 1, 5>>},
     r \in {0, 1, 4},
     p \in {"Consumption", "Dedicated", Undefined}}

SeqsFrom0(S, n) == UNION {[1..k -> S] : k \in 0..n}

\* The result stored by a submit of the untouched form.
PristineResult == calculate(<<InitialApp>>, <<>>, "Consumption")

(***************************************************************************)
(* Specifications.                                                         *)
(***************************************************************************)
\* The state after construction.
Init ==
  /\ apps = <<InitialApp>>
  /\ subnetSize = <<>>
  /\ planChoice = "Consumption"
  /\ result = Null
  /\ inputErrors = <<>>
  /\ availableIPs = getAvailableIPs(<<>>)

\* Values typed into the numeric fields of the form.
EditValues(field) ==
  CASE field = "cpu" -> {0, 5}
    [] field = "ram" -> {0}
    [] field = "gpu" -> {0}
    [] field = "minReplicas" -> {1, 6}
    [] field = "replicas" -> {1}

EditNumber ==
  \E idx \in 1..Len(apps), field \in NumericFields :
    \E v \in EditValues(field) : handleAppChange(idx, field, Dec(v))

\* The plan select is rendered under Mix only.
EditPlan ==
  /\ planChoice = "Mix"
  /\ \E idx \in 1..Len(apps), p \in PlanTypes : handleAppChange(idx, "plan", p)

AddApp == Len(apps) < MaxApps /\ addApp

\* The Remove button is rendered when there is more than one app.
RemoveApp == Len(apps) > 1 /\ \E idx \in 1..Len(apps) : removeApp(idx)

Submit == handleSubmit

ChoosePlan == \E v \in PlanChoices : handlePlanChoiceChange(v)

TypeSubnet == \E s \in {SlashForm(28)} : setSubnetSize(s)

Next ==
  \/ EditNumber
  \/ EditPlan
  \/ AddApp
  \/ RemoveApp
  \/ Submit
  \/ ChoosePlan
  \/ TypeSubnet

Spec == Init /\ [][Next]_vars

\* getAvailableIPs over subnet texts: the subnet field is set to each text.
TypeAnySubnet == \E s \in SubnetInputs : setSubnetSize(s)

SpecSubnet == Init /\ [][TypeAnySubnet]_vars

\* The planner over forms: any form of up to MaxApps apps is submitted,
\* with or without an earlier result on display.
InitSubmit ==
  /\ planChoice \in PlanChoices
  /\ apps \in {as \in SeqsUpTo(PlanApps, MaxApps) : TagsMatch(as, planChoice)}
  /\ subnetSize \in PlanSubnets
  /\ result \in {Null, PristineResult}
  /\ inputErrors = <<>>
  /\ availableIPs = getAvailableIPs(subnetSize)

SpecSubmit == InitSubmit /\ [][Submit]_vars

\* The Dedicated accounting of a single app over the whole catalog.
InitNodes ==
  /\ planChoice = "Dedicated"
  /\ apps \in {<<a>> : a \in NodeApps}
  /\ subnetSize = SlashForm(24)
  /\ result = Null
  /\ inputErrors = <<>>
  /\ availableIPs = getAvailableIPs(subnetSize)

SpecNodes == InitNodes /\ [][Submit]_vars

\* The stepper of the Max Replicas input (step 1): one replica more.
MoreReplicas ==
  /\ apps[1].replicas < MaxConsReplicas
  /\ handleAppChange(1, "replicas", Dec(apps[1].replicas + 1))

\* One Consumption app whose replica count is stepped up, with submits in
\* between.
SpecReplicas == Init /\ [][MoreReplicas \/ Submit]_vars

\* The baseline variant: any form of up to MaxApps apps is submitted, with
\* or without an earlier result on display.
InitBaseline ==
  /\ planChoice \in PlanChoices
  /\ apps \in {as \in SeqsUpTo(BaselineApps, MaxApps) : TagsMatch(as, planChoice)}
  /\ subnetSize = <<>>
  /\ result \in {Null, PristineResult}
  /\ inputErrors = <<>>
  /\ availableIPs = getAvailableIPs(subnetSize)

SubmitBaseline == handleSubmitBaseline

SpecBaseline == InitBaseline /\ [][SubmitBaseline]_vars

\* The form of the baseline variant under edits: replica counts from 1 to
\* MaxEdit are typed into the three replica fields, cpu is typed as 0 or 2,
\* apps are added and removed, and the four-second message expires.
InitBaselineForm ==
  /\ apps = <<InitialAppBaseline>>
  /\ subnetSize = <<>>
  /\ planChoice = "Consumption"
  /\ result = Null
  /\ inputErrors = <<>>
  /\ availableIPs = getAvailableIPs(<<>>)

EditReplicasBaseline ==
  \E idx \in 1..Len(apps) :
    \E field \in {"minReplicas", "baselineReplicas", "replicas"} :
      \E v \in 1..MaxEdit : handleAppChangeBaseline(idx, field, Dec(v))

EditCpuBaseline ==
  \E idx \in 1..Len(apps) :
    \E v \in {0, 2} : handleAppChangeBaseline(idx, "cpu", Dec(v))

AddAppBaseline == Len(apps) < MaxApps /\ addAppBaseline

\* As in the other variants, the last app cannot be removed.
RemoveAppBaseline == Len(apps) > 1 /\ \E idx \in 1..Len(apps) : removeApp(idx)

MessageExpires == clearInputErrors

SpecBaselineForm ==
  InitBaselineForm
  /\ [][EditReplicasBaseline \/ EditCpuBaseline \/ AddAppBaseline
         \/ RemoveAppBaseline \/ MessageExpires]_vars

\* The co-packing variant: any form of up to MaxApps apps is submitted, once
\* and again.
InitPack ==
  /\ planChoice \in PlanChoices
  /\ apps \in {as \in SeqsUpTo(PackApps, MaxApps) : TagsMatch(as, planChoice)}
  /\ subnetSize \in {<<>>, SlashForm(24), BareForm(28)}
  /\ result = Null
  /\ inputErrors = <<>>
  /\ availableIPs = getAvailableIPs(subnetSize)

SubmitPacked == handleSubmitPacked

SpecPack == InitPack /\ [][SubmitPacked]_vars

\* The packing loop of the co-packing variant: forms whose apps need no
\* resource, fill a node exactly or have no replicas are submitted.
InitPacking ==
  /\ planChoice \in PlanChoices
  /\ apps \in {as \in SeqsUpTo(PackingApps, MaxApps) : TagsMatch(as, planChoice)}
  /\ subnetSize = <<>>
  /\ result = Null
  /\ inputErrors = <<>>
  /\ availableIPs = getAvailableIPs(subnetSize)

SpecPacking == InitPacking /\ [][SubmitPacked]_vars

\* The reserved-IP variant: any form of up to MaxApps apps is submitted
\* against a /27 or a /28 subnet.
InitReserved ==
  /\ planChoice \in PlanChoices
  /\ apps \in {as \in SeqsUpTo(PackApps, MaxApps) : TagsMatch(as, planChoice)}
  /\ subnetSize \in {SlashForm(27), SlashForm(28)}
  /\ result = Null
  /\ inputErrors = <<>>
  /\ availableIPs = getAvailableIPs(subnetSize)

SubmitReserved == handleSubmitReserved

SpecReserved == InitReserved /\ [][SubmitReserved]_vars

\* setResult(calculate(apps, subnetSize, planChoice)) on its own.
ApplyCalculate ==
  /\ result' = calculate(apps, subnetSize, planChoice)
  /\ UNCHANGED <<apps, subnetSize, planChoice, inputErrors, availableIPs>>

\* calculate over app lists (the empty list included), subnet texts and plan
\* choices, and the result block rendered from what it returns.
InitCalculate ==
  /\ planChoice \in PlanChoices
  /\ apps \in {as \in SeqsFrom0(CalcApps, MaxApps) : TagsMatch(as, planChoice)}
  /\ subnetSize \in CalcSubnets
  /\ result = Null
  /\ inputErrors = <<>>
  /\ availableIPs = getAvailableIPs(subnetSize)

SpecCalculate == InitCalculate /\ [][ApplyCalculate]_vars

(***************************************************************************)
(* Mathematics the properties are stated in.                               *)
(***************************************************************************)
\* ceil(r / d) for r >= 0 and d > 0: the least k with k * d >= r.
CeilOf(r, d) == CHOOSE k \in 0..r : k * d >= r /\ \A j \in 0..(k - 1) : j * d < r

\* The plan an app is evaluated under.
PlannedConsumption(app, choice) ==
  choice = "Consumption" \/ (choice = "Mix" /\ app.plan = "Consumption")

PlannedDedicated(app, choice) ==
  choice = "Dedicated" \/ (choice = "Mix" /\ app.plan = "Dedicated")

ConsAppsOf(as, choice) == SelectSeq(as, LAMBDA a : PlannedConsumption(a, choice))

DedAppsOf(as, choice) == SelectSeq(as, LAMBDA a : PlannedDedicated(a, choice))

RECURSIVE Total(_)
Total(s) == IF Len(s) = 0 THEN 0 ELSE s[1] + Total(Tail(s))

\* A submit that passes validation and stores a result.
SubmitAccepted == handleSubmit /\ inputErrors' = <<>>

\* The perApp entries of a result (a Consumption result has none).
DedEntries(r) == IF r.plan = "Consumption" THEN <<>> ELSE r.perAppDedicated

\* An app exceeds a Consumption limit.
ExceedsLimits(app) == app.cpu > 4 \/ app.ram > 8 \/ app.gpu > 0

\* 2^(32 - n) - 14 for 1 <= n <= 32, within 32-bit integers.
IPsOfPrefix(n) == IF n = 32 THEN 1 - 14 ELSE 2 * (2 ^ (31 - n) - 7)

\* The three accepted ways of writing prefix length n.
FormsOf(n) == {SlashForm(n), BareForm(n), MaskForm(n)}

(***************************************************************************)
(* getAvailableIPs (SpecSubnet).                                           *)
(***************************************************************************)
\* C1: for every prefix length N in 0..32, written as "/N", as bare "N" or
\* as the netmask with N leading one-bits, the available-IP figure is the
\* number 2^(32-N) - 14.  (For N = 0 the figure is null, so the number is
\* never compared.)
C1_AvailableIPsOfEveryPrefix ==
  \A n \in 0..32 :
    subnetSize \in FormsOf(n) =>
      availableIPs.k = "num" /\ availableIPs.v = IPsOfPrefix(n)

\* C10: every subnet text that is not a prefix length 0..32 in one of the
\* three accepted forms yields a null available-IP figure.
C10_InvalidSubnetIsNull ==
  (\A n \in 0..32 : subnetSize \notin FormsOf(n)) => availableIPs = Null

(***************************************************************************)
(* The Dedicated accounting of one app (SpecNodes).                        *)
(***************************************************************************)
\* Catalog entry m is smaller than entry n: no capacity larger, one smaller.
Smaller(m, n) ==
  /\ m.cpu <= n.cpu /\ m.ram <= n.ram /\ m.gpu <= n.gpu
  /\ (m.cpu < n.cpu \/ m.ram < n.ram \/ m.gpu < n.gpu)

\* C3: the node type resolved for an app is a smallest fitting SKU: no
\* other catalog entry that fits the requirement is smaller than it.
C3_ResolvedNodeIsSmallest ==
  result # Null =>
    LET e == result.perAppDedicated[1]
    IN  e.nodeType # Null =>
          \A i \in 1..Len(DEDICATED_NODE_TYPES) :
            LET m == DEDICATED_NODE_TYPES[i]
            IN  ~ (/\ m.cpu >= apps[1].cpu /\ m.ram >= apps[1].ram
                   /\ m.gpu >= apps[1].gpu
                   /\ Smaller(m, e.nodeType))

\* n nodes of capacity p hold r replicas.  With p = Infinity one node holds
\* any number of replicas and no node holds none (0 * Infinity is NaN).
Holds(n, p, r) == IF p = Infinity THEN n >= 1 ELSE n * p >= r

\* C5: for a Dedicated app with a resolved node type, per-node capacity P
\* and R replicas: when P > 0, nodesNeeded is the least number of nodes n
\* with n * P >= R; when P <= 0, nodesNeeded is 0 and the result carries a
\* warning.
C5_NodesNeededIsCeiling ==
  result # Null =>
    LET e == result.perAppDedicated[1]
    IN  e.nodeType # Null =>
          IF e.perNodeCapacity > 0
            THEN /\ Holds(e.nodesNeeded, e.perNodeCapacity, e.replicas)
                 /\ \A n \in 0..(e.nodesNeeded - 1) :
                      ~ Holds(n, e.perNodeCapacity, e.replicas)
            ELSE /\ e.nodesNeeded = 0
                 /\ result.warning \notin {"", Undefined}

\* Catalog entry i covers the per-replica requirement of app on every axis.
Covers(i, app) ==
  /\ DEDICATED_NODE_TYPES[i].cpu >= app.cpu
  /\ DEDICATED_NODE_TYPES[i].ram >= app.ram
  /\ DEDICATED_NODE_TYPES[i].gpu >= app.gpu

C17_NoGpuAppAvoidsGpuSku ==
  result # Null =>
    LET e   == result.perAppDedicated[1]
        app == apps[1]
        zeroGpuFits ==
          \E i \in 1..Len(DEDICATED_NODE_TYPES) :
            DEDICATED_NODE_TYPES[i].gpu = 0 /\ Covers(i, app)
    IN  app.gpu = 0 =>
          /\ zeroGpuFits => (e.nodeType # Null /\ e.nodeType.gpu = 0)
          /\ (e.nodeType # Null /\ e.nodeType.gpu > 0) => ~ zeroGpuFits

\* C17 witness: an app without GPU that NC24-A100 would cover (cpu 24,
\* ram 129) was resolved to E32.
C17_Witness ==
  /\ result # Null
  /\ apps[1].cpu = 24 /\ apps[1].ram = 129 /\ apps[1].gpu = 0
  /\ result.perAppDedicated[1].nodeTypeName = "E32"
  /\ result.perAppDedicated[1].nodeType.gpu = 0

\* C14: for a Dedicated app with per-node capacity P > 0 and R replicas,
\* the displayed assignment gives node k, for k = 1..nodesNeeded, the replica
\* range [(k-1)*P + 1, min(k*P, R)]; the ranges are non-empty, pairwise
\* disjoint, of size at most P, and together cover exactly replicas 1..R.
C14_SequentialFillCoversReplicas ==
  result # Null =>
    LET a    == result.appAssignments[1]
        P    == a.perNodeCapacity
        R    == a.replicas
        rows == NodesAssigned(a)
        Range(k) == rows[k].startReplica .. rows[k].endReplica
    IN  P > 0 =>
          /\ Len(rows) = a.nodes
          /\ \A k \in 1..Len(rows) :
                /\ rows[k].node = k
                /\ rows[k].startReplica = (k - 1) * P + 1
                /\ rows[k].endReplica = IF k * P < R THEN k * P ELSE R
                /\ Range(k) # {}
                /\ Cardinality(Range(k)) <= P
          /\ \A k, l \in 1..Len(rows) :
                k # l => Range(k) \cap Range(l) = {}
          /\ UNION {Range(k) : k \in 1..Len(rows)} = 1..R

(***************************************************************************)
(* calculate and the result block (SpecCalculate).                         *)
(***************************************************************************)
\* C12: with a result on display, the peak-insufficiency error is shown
\* exactly when the available-IP figure is a number and the peak total
\* exceeds it, the upgrade-insufficiency error is shown exactly when the
\* available-IP figure is a number and the upgrade-phase total exceeds it,
\* and neither is shown when the available-IP figure is null.
C12_ErrorsDecidedIndependently ==
  result # Null =>
    /\ PeakErrorShown <=>
          (availableIPs.k = "num" /\ result.ips - availableIPs.v > 0)
    /\ UpgradeErrorShown <=>
          (availableIPs.k = "num" /\ result.doubledIPs - availableIPs.v > 0)
    /\ availableIPs.k = "null" => (~ PeakErrorShown /\ ~ UpgradeErrorShown)

\* C12 witness: the upgrade error is shown without the peak error (subnet
\* /28 with 2 available IPs, peak total 1, upgrade total 11).
C12_Witness ==
  /\ result # Null /\ availableIPs = Num(2)
  /\ result.ips = 1 /\ result.doubledIPs = 11
  /\ UpgradeErrorShown /\ ~ PeakErrorShown

\* The apps calculate accounts for under a plan choice.
Accounted(as, choice) ==
  IF choice = "Mix"
    THEN SelectSeq(as, LAMBDA a : a.plan \in {"Consumption", "Dedicated"})
    ELSE as

\* C15: calculate never ends in an error: for every app list (the empty
\* list, zero resource values and unfittable apps included), every subnet
\* text and every plan choice it returns a result record (plan, totals, one
\* row per app, warning); input it cannot satisfy or parse shows in the
\* warning text and the N/A rows.
C15_CalculateAlwaysReturnsResult ==
  result # Null =>
    /\ {"plan", "ips", "doubledIPs", "details", "appAssignments", "warning"}
          \subseteq DOMAIN result
    /\ result.plan = planChoice
    /\ result.ips \in Nat /\ result.doubledIPs \in Nat
    /\ Len(result.appAssignments) = Len(Accounted(apps, planChoice))
    /\ result.warning \in {"", Undefined, MinSubnetWarning, NoNodeWarning}

\* C15 witness: a Dedicated plan was returned for an unfittable app (gpu 5)
\* and a subnet text that is no subnet.
C15_Witness ==
  /\ result # Null /\ planChoice = "Dedicated" /\ subnetSize = <<"/", "a">>
  /\ Len(apps) = 1 /\ apps[1].gpu = 5
  /\ result.warning = NoNodeWarning /\ result.ips = 0

\* C16: for a subnet written "/N" or as the bare integer "N", the result
\* carries the minimum-subnet-size warning exactly when N > 27; and a /27
\* subnet with a single valid Consumption app gives no warning at all.
C16_MinSubnetWarningAbove27 ==
  result # Null =>
    /\ \A n \in 0..MaxPrefix :
         subnetSize \in {SlashForm(n), BareForm(n)} =>
           (result.warning = MinSubnetWarning <=> n > 27)
    /\ ( /\ subnetSize \in {SlashForm(27), BareForm(27)}
         /\ planChoice = "Consumption" /\ Len(apps) = 1
         /\ ~ ExceedsLimits(apps[1]) )
         => result.warning = ""

\* C16 witness: the /27 scenario (one Consumption app, cpu 1, ram 2, 2 to
\* 25 replicas): peak total 3, upgrade total 1, 18 available IPs, no
\* warning and no error.
C16_Witness ==
  /\ result # Null /\ subnetSize = SlashForm(27) /\ planChoice = "Consumption"
  /\ Len(apps) = 1 /\ apps[1].cpu = 1 /\ apps[1].replicas = 25
  /\ result.ips = 3 /\ result.doubledIPs = 1 /\ availableIPs = Num(18)
  /\ result.warning = "" /\ ~ PeakErrorShown /\ ~ UpgradeErrorShown

\* C26: the warning calculate returns depends only on the prefix length the
\* subnet text denotes: for a subnet written in one of the three forms of a
\* prefix length N ("/N", bare "N", netmask with N leading one-bits),
\* calculate returns the same warning for each of the other forms, the app
\* list and the plan choice being the same.
C26_WarningIndependentOfSubnetForm ==
  [][ApplyCalculate =>
       \A n \in 1..32 :
         subnetSize \in FormsOf(n) =>
           \A f \in FormsOf(n) :
             calculate(apps, f, planChoice).warning = result'.warning]_vars

(***************************************************************************)
(* The Consumption cost over replica counts (SpecReplicas).                *)
(***************************************************************************)
\* C19: the Consumption IP cost is non-decreasing in the replica count: a
\* plan computed for more replicas than the plan on display never costs
\* fewer IPs, and a plan computed for exactly one replica more costs 1 IP
\* more when the earlier count was a multiple of 10 and the same otherwise.
C19_ConsumptionCostSteps ==
  [][(handleSubmit /\ result # Null) =>
       LET before == result.appAssignments[1]
           after  == result'.appAssignments[1]
       IN  /\ after.replicas = apps[1].replicas
           /\ after.ipUsed = result'.ips
           /\ before.replicas <= after.replicas
                => before.ipUsed <= after.ipUsed
           /\ after.replicas = before.replicas + 1
                => after.ipUsed - before.ipUsed =
                     IF before.replicas % 10 = 0 THEN 1 ELSE 0]_vars

\* C19 witness: the plan for 21 replicas (3 IPs) is on display.
C19_Witness ==
  /\ result # Null /\ apps[1].replicas = 21
  /\ result.appAssignments[1].replicas = 21 /\ result.ips = 3

(***************************************************************************)
(* Submit in the baseline variant (SpecBaseline).                          *)
(***************************************************************************)
\* An app of the baseline variant that submit accepts under a plan choice.
BaselineValid(app, choice) ==
  /\ app.cpu > 0 /\ app.ram > 0
  /\ app.minReplicas <= app.baselineReplicas
  /\ app.baselineReplicas <= app.replicas
  /\ PlannedConsumption(app, choice) => ~ ExceedsLimits(app)

\* C18: in the baseline variant a submit computes a plan only if every app
\* has cpu > 0, ram > 0 and minReplicas <= baselineReplicas <= replicas and
\* keeps the Consumption limits; if any app violates one of these the
\* stored result is left as it was and errors are reported, and otherwise
\* the result of calculate is stored.
C18_BaselineSubmitValidates ==
  [][handleSubmitBaseline =>
       IF \A i \in 1..Len(apps) : BaselineValid(apps[i], planChoice)
         THEN /\ inputErrors' = <<>>
              /\ result' = calculate(apps, subnetSize, planChoice)
         ELSE /\ result' = result
              /\ \E k \in 1..Len(inputErrors') :
                    ~ BaselineValid(apps[inputErrors'[k].app], planChoice)]_vars

\* C18 witness: a Dedicated form whose only app has a baseline below its
\* minimum (2, 1, 3) was rejected, and the result shown before is kept.
C18_Witness ==
  /\ planChoice = "Dedicated" /\ Len(apps) = 1
  /\ apps[1].cpu = 1 /\ apps[1].ram = 1
  /\ apps[1].minReplicas = 2 /\ apps[1].baselineReplicas = 1
  /\ inputErrors = <<[app |-> 1, err |-> BaselineError]>>
  /\ result = PristineResult

(***************************************************************************)
(* The form of the baseline variant under edits (SpecBaselineForm).        *)
(***************************************************************************)
\* C28: in the baseline variant, after any sequence of handleAppChange
\* edits of minReplicas, baselineReplicas or replicas with values of at
\* least 1 from the initial form, every app satisfies
\* minReplicas <= baselineReplicas <= replicas.
C28_ReplicaOrderKeptByEdits ==
  \A i \in 1..Len(apps) :
    /\ apps[i].minReplicas <= apps[i].baselineReplicas
    /\ apps[i].baselineReplicas <= apps[i].replicas

Largest(as, field) ==
  CHOOSE v \in {as[j][field] : j \in 1..Len(as)} :
    \A j \in 1..Len(as) : as[j][field] <= v

C21_PackedMinSubnetWarningAbove27 ==
  [][(handleSubmitPacked /\ inputErrors' = <<>>) =>
       \A n \in 0..MaxPrefix :
         subnetSize \in {SlashForm(n), BareForm(n)} =>
           (result'.warning = MinSubnetWarning <=> n > 27)]_vars

(***************************************************************************)
(* The packing loop of the co-packing variant (SpecPacking).               *)
(***************************************************************************)
\* The replicas the assignment gives to the app at position i, over all
\* nodes.
AssignedReplicas(assignment, i) ==
  SumSeq([n \in 1..Len(assignment) |->
            SumSeq([k \in 1..Len(assignment[n].apps) |->
                      IF assignment[n].apps[k].app = i
                        THEN assignment[n].apps[k].replicas
                        ELSE 0])])

\* C29: for Dedicated apps with cpu, ram, gpu >= 0 and non-negative integer
\* replica counts for which a shared node type is found, the packing loop
\* ends (every node it opens takes at least one replica, so it opens at
\* most as many nodes as there are replicas), and the replicas assigned to
\* each app over all nodes add up exactly to the app's replica count.
C29_PackingAssignsEveryReplicaOnce ==
  [][(handleSubmitPacked /\ inputErrors' = <<>> /\ planChoice # "Consumption") =>
       LET ded == DedAppsOf(apps, planChoice)
           a   == result'.assignment
       IN  result'.nodeType # Null =>
             /\ result'.nodes = Len(a)
             /\ result'.nodes <= SumSeq([i \in 1..Len(ded) |-> ded[i].replicas])
             /\ \A n \in 1..Len(a) :
                  /\ a[n].node = n
                  /\ Len(a[n].apps) > 0
                  /\ \A k \in 1..Len(a[n].apps) :
                       /\ a[n].apps[k].app \in 1..Len(ded)
                       /\ a[n].apps[k].replicas > 0
             /\ \A i \in 1..Len(ded) :
                  AssignedReplicas(a, i) = ded[i].replicas]_vars

\* C29 witness: 4 replicas of an app with cpu 1 and ram 4 filled a D4 node
\* exactly, the app after it (no requirement, 1 replica) found nothing
\* left on that node (0 / 0) and went onto a second node.
C29_Witness ==
  /\ result # Null /\ result.plan = "Dedicated" /\ Len(apps) = 2
  /\ apps[1].cpu = 1 /\ apps[1].ram = 4 /\ apps[1].replicas = 4
  /\ apps[2].cpu = 0 /\ apps[2].ram = 0 /\ apps[2].replicas = 1
  /\ result.nodeType.name = "D4" /\ result.nodes = 2
  /\ result.assignment[1].apps = <<[app |-> 1, replicas |-> 4]>>
  /\ result.assignment[2].apps = <<[app |-> 2, replicas |-> 1]>>

(***************************************************************************)
(* The reserved-IP variant (SpecReserved).                                 *)
(***************************************************************************)
\* The IPs the apps of a plan consume: one per dedicated node and
\* ceil(replicas / 10) per app under Consumption.
AppIPs(as, choice, r) ==
  LET cons == ConsAppsOf(as, choice)
  IN  Total([i \in 1..Len(cons) |-> CeilOf(cons[i].replicas, 10)])
      + (IF choice = "Consumption" THEN 0 ELSE r.nodes)

\* C22: in the reserved-IP variant the 14 infrastructure addresses are
\* accounted once: for a /N subnet the not-enough-IPs error is shown exactly
\* when 14 plus the IPs consumed by the apps exceeds 2^(32-N).
C22_InfraCountedOnce ==
  result # Null =>
    \A n \in 1..30 :
      subnetSize = SlashForm(n) =>
        (ReservedErrorShown <=>
           14 + AppIPs(apps, planChoice, result) > 2 ^ (32 - n))

(***************************************************************************)
(* The form and the result block (Spec).                                   *)
(***************************************************************************)
\* C23: whenever the plan choice is Mix, every app of the list carries the
\* plan tag Consumption or Dedicated, so that the Consumption and Dedicated
\* subsets calculate works on make up the whole list and the plan has a row
\* for every app.
C23_MixAppsAreTagged ==
  planChoice = "Mix" =>
    /\ \A i \in 1..Len(apps) : apps[i].plan \in {"Consumption", "Dedicated"}
    /\ Len(SelectSeq(apps, IsConsApp)) + Len(SelectSeq(apps, IsDedApp))
         = Len(apps)
    /\ Len(calculate(apps, subnetSize, planChoice).appAssignments) = Len(apps)

\* C23 witness: under Mix, an app was added, another was removed and a plan
\* tag was changed, leaving a Dedicated app followed by a Consumption app,
\* and a Mix plan is on display.
C23_Witness ==
  /\ planChoice = "Mix" /\ Len(apps) = 2
  /\ apps[1].plan = "Dedicated" /\ apps[2].plan = "Consumption"
  /\ result # Null /\ result.plan = "Mix"

\* C24: the upgrade-insufficiency error agrees with the upgrade-phase
\* estimate on display: once a plan is computed, the total that drives the
\* error (result.doubledIPs) equals the displayed estimate (computed from
\* minimum replicas doubled), and the error is shown exactly when that
\* estimate exceeds the available IPs.
C24_UpgradeErrorMatchesEstimate ==
  [][SubmitAccepted =>
       /\ result'.doubledIPs = UpgradeIPsShown'
       /\ UpgradeErrorShown' <=>
            (availableIPs'.k = "num" /\ UpgradeIPsShown' > availableIPs'.v)]_vars

\* C25: with a plan on display, a step that stores no new result (an edit,
\* an added or a removed app) changes none of the displayed figures: the
\* stored result and the upgrade-phase estimate and rows stay as they were.
C25_FiguresChangeOnlyOnSubmit ==
  [][(result # Null /\ (EditNumber \/ EditPlan \/ AddApp \/ RemoveApp)) =>
       /\ result' = result
       /\ UpgradeIPsShown' = UpgradeIPsShown
       /\ UpgradeConsRows' = UpgradeConsRows
       /\ UpgradeDedResult' = UpgradeDedResult]_vars

\* C27: for every input that passes submit validation, each Dedicated app
\* with a fitting node type and at least one replica is counted with at
\* least one node, so the Dedicated IP total is at least the number of such
\* apps.
C27_FittedAppCountsANode ==
  [][SubmitAccepted =>
       LET es == DedEntries(result')
       IN  /\ \A i \in 1..Len(es) :
                (es[i].nodeType # Null /\ es[i].replicas >= 1)
                  => es[i].nodesNeeded >= 1
           /\ result'.plan = "Dedicated" =>
                result'.ips >= Cardinality({i \in 1..Len(es) :
                                             /\ es[i].nodeType # Null
                                             /\ es[i].replicas >= 1})]_vars

(***************************************************************************)
(* Submit and the planner (SpecSubmit).                                    *)
(***************************************************************************)
\* No catalog entry satisfies the app's per-replica requirement.
Unfit(app) ==
  \A i \in 1..Len(DEDICATED_NODE_TYPES) :
    \/ DEDICATED_NODE_TYPES[i].cpu < app.cpu
    \/ DEDICATED_NODE_TYPES[i].ram < app.ram
    \/ DEDICATED_NODE_TYPES[i].gpu < app.gpu

\* C2: the upgrade-phase total (doubledIPs) is the plan accounting applied
\* to each app's minimum replica count doubled: ceil(2 * minReplicas / 10)
\* per Consumption app plus ceil(2 * minReplicas / perNodeCapacity) per
\* Dedicated app.
C2_UpgradeTotalDoublesMinReplicas ==
  [][SubmitAccepted =>
       LET cons    == ConsAppsOf(apps, planChoice)
           ded     == DedAppsOf(apps, planChoice)
           entries == DedEntries(result')
       IN  result'.doubledIPs =
             Total([i \in 1..Len(cons) |-> CeilOf(2 * cons[i].minReplicas, 10)])
             + Total([j \in 1..Len(ded) |->
                        IF entries[j].perNodeCapacity > 0
                          THEN CeilOf(2 * ded[j].minReplicas,
                                      entries[j].perNodeCapacity)
                          ELSE 0])]_vars

\* C4: the peak total (ips) is the sum over all apps of the per-app cost at
\* the maximum replica count: ceil(replicas / 10) for an app under
\* Consumption, and nodesNeeded (ceil(replicas / perNodeCapacity), or 0
\* without a node type) for an app under Dedicated.
C4_PeakTotalIsSumOfAppCosts ==
  [][SubmitAccepted =>
       LET cons    == ConsAppsOf(apps, planChoice)
           ded     == DedAppsOf(apps, planChoice)
           entries == DedEntries(result')
       IN  /\ Len(cons) + Len(ded) = Len(apps)
           /\ Len(entries) = Len(ded)
           /\ \A j \in 1..Len(ded) :
                /\ entries[j].replicas = ded[j].replicas
                /\ entries[j].nodesNeeded =
                     IF entries[j].perNodeCapacity > 0
                       THEN CeilOf(ded[j].replicas, entries[j].perNodeCapacity)
                       ELSE 0
           /\ result'.ips =
                Total([i \in 1..Len(cons) |-> CeilOf(cons[i].replicas, 10)])
                + Total([j \in 1..Len(ded) |-> entries[j].nodesNeeded])]_vars

\* C4 witness: a Mix plan of one Consumption app (11 replicas, 2 IPs) and
\* one Dedicated app (11 replicas, 4 per node, 3 nodes) has been computed.
C4_Witness ==
  /\ result # Null /\ result.plan = "Mix" /\ Len(apps) = 2
  /\ apps[1].plan = "Consumption" /\ apps[2].plan = "Dedicated"
  /\ apps[1].replicas = 11 /\ apps[2].replicas = 11
  /\ result.perAppDedicated[1].perNodeCapacity = 4
  /\ result.ips = 5

\* C6: on submit, if an app evaluated under Consumption exceeds a limit,
\* the stored result is left as it was and the error list has an entry for
\* that app; no entry is ever made for an app evaluated under Dedicated.
C6_ViolationBlocksSubmit ==
  [][handleSubmit =>
       /\ \A i \in 1..Len(apps) :
            (PlannedConsumption(apps[i], planChoice) /\ ExceedsLimits(apps[i]))
              => /\ result' = result
                 /\ \E k \in 1..Len(inputErrors') : inputErrors'[k].app = i
       /\ \A k \in 1..Len(inputErrors') :
            /\ inputErrors'[k].app \in 1..Len(apps)
            /\ PlannedConsumption(apps[inputErrors'[k].app], planChoice)]_vars

\* C6 witness: a submit was rejected for app 1 (Consumption, cpu 5) while
\* app 2 (Dedicated, cpu 5, gpu 5) raised no entry, and the result shown
\* before is still stored.
C6_Witness ==
  /\ planChoice = "Mix" /\ Len(apps) = 2
  /\ apps[1].plan = "Consumption" /\ apps[1].cpu = 5
  /\ apps[2].plan = "Dedicated" /\ apps[2].cpu = 5 /\ apps[2].gpu = 5
  /\ Len(inputErrors) = 1 /\ inputErrors[1].app = 1
  /\ result = PristineResult

FirstExceeded(app) ==
  IF app.cpu > 4 THEN CpuError ELSE IF app.ram > 8 THEN RamError ELSE GpuError

C8_UnfitAppIsWarned ==
  [][(SubmitAccepted /\ \E i \in 1..Len(apps) :
                          PlannedDedicated(apps[i], planChoice) /\ Unfit(apps[i]))
       => \/ result'.warning = NoNodeWarning
          \/ result'.details = [kind |-> "text", text |-> NoNodeWarning]]_vars

\* C9: an app no catalog entry fits contributes 0 nodes and 0 IPs with node
\* type N/A, and the node type, per-node capacity and node count of every
\* other app, and the peak total, are those of the plan computed without the
\* unfittable apps.
C9_UnfitAppDoesNotBlock ==
  [][(SubmitAccepted /\ planChoice # "Consumption") =>
       LET ded     == DedAppsOf(apps, planChoice)
           entries == result'.perAppDedicated
           fit     == SelectSeq([j \in 1..Len(ded) |-> j],
                                LAMBDA j : ~ Unfit(ded[j]))
           without == SelectSeq(apps,
                        LAMBDA a : ~ (PlannedDedicated(a, planChoice) /\ Unfit(a)))
           ref     == calculate(without, subnetSize, planChoice)
       IN  /\ Len(entries) = Len(ded)
           /\ \A j \in 1..Len(ded) :
                Unfit(ded[j]) => /\ entries[j].nodesNeeded = 0
                                 /\ entries[j].nodeTypeName = "N/A"
           /\ Len(ref.perAppDedicated) = Len(fit)
           /\ \A k \in 1..Len(fit) :
                /\ entries[fit[k]].nodeTypeName = ref.perAppDedicated[k].nodeTypeName
                /\ entries[fit[k]].perNodeCapacity
                     = ref.perAppDedicated[k].perNodeCapacity
                /\ entries[fit[k]].nodesNeeded = ref.perAppDedicated[k].nodesNeeded
           /\ result'.ips = ref.ips]_vars

\* C9 witness: a Dedicated plan was computed for an unfittable app (gpu 5)
\* followed by an app that needs 3 nodes.
C9_Witness ==
  /\ result # Null /\ result.plan = "Dedicated" /\ Len(apps) = 2
  /\ apps[1].gpu = 5 /\ apps[2].gpu = 0
  /\ result.perAppDedicated[1].nodeTypeName = "N/A"
  /\ result.perAppDedicated[2].nodesNeeded = 3
  /\ result.ips = 3

====
